---- MODULE Spec2Model ----
(***************************************************************************)
(* Model of server/google_directory_service.py: the credential lookup,     *)
(* the service builder, the directory accessors GetUserInfo and            *)
(* UpdateUserInfo, and the admin membership check IsInAdminGroup with its  *)
(* memcache entry.  Every caller is a process whose position (pc) walks    *)
(* the statements of the operation it invoked; every datastore, memcache   *)
(* or Directory API interaction is one step and is logged in the caller's  *)
(* trace.                                                                  *)
(***************************************************************************)
EXTENDS Naturals, Sequences, FiniteSets, TLC

VARIABLES
  credentials_store,  \* CredentialsModel entity of CURRENT_DOMAIN: "None" or credentials
  lifecycle,          \* history of that entity: "initial", "invalidated", "recreated"
  service_account,    \* config.SERVICE_ACCOUNT
  admin_group,        \* datastore.Setting 'admin_group': "None" or the group key
  memcache,           \* key -> [value, age, time] of the entries memcache stores
  directory,          \* the remote Directory API's user records, by email
  pc,                 \* each caller's position
  call,               \* each caller's operation and arguments
  local,              \* each caller's local variables
  result,             \* what the finished invocation returned or raised
  trace               \* the external interactions of the invocation, in order

vars == <<credentials_store, lifecycle, service_account, admin_group, memcache, directory,
          pc, call, local, result, trace>>

(***************************** program constants ***************************)
MEMCACHE_ADMIN_KEY == "admins"
MEMCACHE_EXPIRATION_TIME_IN_SECONDS == 600
CURRENT_DOMAIN == "x.com"

(********************************* bounds **********************************)
\* seconds by which one Tick of the clock ages the memcache entry
TickSeconds == 300
\* the age in seconds up to which an entry that never expires is followed
MaxAge == 900
\* the longest group-members listing the Directory API returns
MaxMembers == 2

Procs == {"p1", "p2"}
Users == {"a@x.com", "b@x.com"}
\* user records as the Directory API returns them; the last has no isAdmin key
UserRecords == {[isAdmin |-> TRUE], [isAdmin |-> FALSE], [suspended |-> FALSE]}
Ops == {"GetUserInfo", "UpdateUserInfo", "IsInAdminGroup", "BuildService"}

StoredCredentials == "stored credentials"
ExplicitCredentials == "explicit credentials"
PemCredentials == "pem credentials"

\* the member records of a group-members listing: no email twice
MemberRecord(e) == [email |-> e, role |-> "MEMBER"]
MemberLists ==
  {ms \in UNION {[1..n -> {MemberRecord(e) : e \in Users}] : n \in 0..MaxMembers} :
     \A i, j \in DOMAIN ms : ms[i] = ms[j] => i = j}

AdminCacheKey == CURRENT_DOMAIN \o ":" \o MEMCACHE_ADMIN_KEY

\* a local that Python has not assigned, or that holds None, is <<>>; one that
\* holds the value v is <<v>>
NoLocal == [site |-> "None", credentials |-> "None", user_info |-> <<>>,
            cached_admin_emails |-> <<>>, admin_group_info |-> <<>>]
NoCall == [op |-> "None", user_email |-> "a@x.com", new_user_info |-> [suspended |-> FALSE],
           credentials |-> "None"]
NoResult == [kind |-> "none", value |-> "None"]

Returns(v) == [kind |-> "return", value |-> v]
Raises(e) == [kind |-> "raise", value |-> e]

InvalidPemError == "Exception: The service account credentials are invalid."
AdminGroupError == "Exception: You must configure ADMIN_GROUP in config.py"

Log(p, events) == trace' = [trace EXCEPT ![p] = @ \o events]

Finish(p, r) ==
  /\ pc' = [pc EXCEPT ![p] = "done"]
  /\ result' = [result EXCEPT ![p] = r]

Goto(p, label) ==
  /\ pc' = [pc EXCEPT ![p] = label]
  /\ UNCHANGED result

\* Any stored credentials, configuration and directory content; nothing cached.
\* The operations are invoked one after another by the caller p1 (the module
\* is synchronous glue code, one call per request); p2 does not call.
Init ==
  /\ credentials_store \in {"None", StoredCredentials}
  /\ lifecycle = "initial"
  /\ service_account \in BOOLEAN
  /\ admin_group \in {"None", "admins@x.com"}
  /\ memcache = <<>>
  /\ directory \in [Users -> UserRecords]
  /\ pc = [p \in Procs |-> IF p = "p1" THEN "idle" ELSE "off"]
  /\ call = [p \in Procs |-> NoCall]
  /\ local = [p \in Procs |-> NoLocal]
  /\ result = [p \in Procs |-> NoResult]
  /\ trace = [p \in Procs |-> <<>>]

(************************* pure parts of the code **************************)
\* user_info.get('isAdmin', ''): the flag is taken only when the key is there
IsAdminFlag(user_info) ==
  "isAdmin" \in DOMAIN user_info /\ user_info["isAdmin"] = TRUE

\* mutant: the emails are collected in the reverse of the order returned
AdminEmails_Reversed(members) ==
  [i \in DOMAIN members |-> members[Len(members) + 1 - i].email]

\* the loop of _GetAdminEmails: member['email'] of every member, in order
AdminEmails(members) == [i \in DOMAIN members |-> members[i].email]

\* user.email() in <list of emails>
InList(email, emails) == \E i \in DOMAIN emails : emails[i] = email

\* an entry set with a time has expired once it is that old; memcache drops
\* it lazily, so it may still be stored
Expired(entry) == entry.time > 0 /\ entry.age >= entry.time

\* memcache.get(key): <<>> for None (no entry, or an expired one), <<value>>
\* for a live entry
MemcacheGetValue(cache, key) ==
  IF key \in DOMAIN cache /\ ~Expired(cache[key]) THEN <<cache[key].value>> ELSE <<>>

\* memcache.set(key, value, time): a fresh entry that lives `time` seconds
MemcacheSet(key, value, time) == (key :> [value |-> value, age |-> 0, time |-> time])

\* mutant: the stored credentials are looked up first and win over the argument
GetAuthorizedHttp_StoredFirst(credentials, stored, sa) ==
  IF stored # "None"
    THEN [credentials |-> stored, events |-> <<"credentials.get">>, raises |-> FALSE]
  ELSE IF credentials # "None"
    THEN [credentials |-> credentials, events |-> <<"credentials.get">>, raises |-> FALSE]
  ELSE IF sa
    THEN [credentials |-> PemCredentials,
          events |-> <<"credentials.get", "LoadCredentialsFromPem">>, raises |-> FALSE]
  ELSE [credentials |-> "None", events |-> <<"credentials.get">>, raises |-> TRUE]

\* mutant: the key file is loaded whenever nothing is stored, service-account
\* mode or not
GetAuthorizedHttp_KeyFileAlways(credentials, stored, sa) ==
  IF credentials # "None"
    THEN [credentials |-> credentials, events |-> <<>>, raises |-> FALSE]
  ELSE IF stored # "None"
    THEN [credentials |-> stored, events |-> <<"credentials.get">>, raises |-> FALSE]
  ELSE [credentials |-> PemCredentials,
        events |-> <<"credentials.get", "LoadCredentialsFromPem">>, raises |-> FALSE]

\* _GetAuthorizedHttp: which credentials are used, what is read on the way
\* and whether SetupNeeded is raised
GetAuthorizedHttp(credentials, stored, sa) ==
  IF credentials # "None"
    THEN [credentials |-> credentials, events |-> <<>>, raises |-> FALSE]
  ELSE IF stored # "None"
    THEN [credentials |-> stored, events |-> <<"credentials.get">>, raises |-> FALSE]
  ELSE IF sa
    THEN [credentials |-> PemCredentials,
          events |-> <<"credentials.get", "LoadCredentialsFromPem">>, raises |-> FALSE]
  ELSE [credentials |-> "None", events |-> <<"credentials.get">>, raises |-> TRUE]

\* the credentials argument BuildService hands to _GetAuthorizedHttp: only a
\* direct BuildService(credentials) call passes any
CredentialsArgument(p) ==
  IF local[p].site = "BuildService" THEN call[p].credentials ELSE "None"

\* where an operation goes on once BuildService has returned the service
AfterBuild(site) ==
  CASE site = "GetUserInfo" -> "users.get"
    [] site = "UpdateUserInfo" -> "users.update"
    [] site = "_GetAdminEmails" -> "members.list"
    [] OTHER -> "done"

(******************************** the callers ******************************)
\* a caller invokes one of the module's operations
Call(p) ==
  /\ pc[p] \in {"idle", "done"}
  /\ \E o \in Ops, u \in Users, b \in UserRecords, c \in {"None", ExplicitCredentials} :
       /\ o # "UpdateUserInfo" => b = NoCall.new_user_info
       /\ o # "BuildService" => c = "None"
       /\ o = "BuildService" => u = NoCall.user_email
       /\ call' = [call EXCEPT ![p] = [op |-> o, user_email |-> u, new_user_info |-> b,
                                        credentials |-> c]]
       /\ local' = [local EXCEPT ![p] =
                      [NoLocal EXCEPT !.site = IF o = "IsInAdminGroup" THEN "GetUserInfo" ELSE o]]
  /\ pc' = [pc EXCEPT ![p] = "_GetAuthorizedHttp"]
  /\ result' = [result EXCEPT ![p] = NoResult]
  /\ trace' = [trace EXCEPT ![p] = <<>>]
  /\ UNCHANGED <<credentials_store, lifecycle, service_account, admin_group, memcache, directory>>

\* _GetAuthorizedHttp, lines 56-70
AuthorizedHttp(p) ==
  /\ pc[p] = "_GetAuthorizedHttp"
  /\ LET got == GetAuthorizedHttp(CredentialsArgument(p), credentials_store, service_account) IN
       /\ Log(p, got.events)
       /\ local' = [local EXCEPT ![p].credentials = got.credentials]
       /\ IF got.raises THEN Finish(p, Raises("SetupNeeded")) ELSE Goto(p, "build")
  /\ UNCHANGED <<credentials_store, lifecycle, service_account, admin_group, memcache, directory, call>>

\* BuildService, lines 85-89: build() returns the service, or raises
Build(p) ==
  /\ pc[p] = "build"
  /\ Log(p, <<"build">>)
  /\ \E outcome \in {"ok", "NotImplementedError", "HttpError"} :
       CASE outcome = "ok" ->
              IF AfterBuild(local[p].site) = "done"
                THEN Finish(p, Returns("service"))
                ELSE Goto(p, AfterBuild(local[p].site))
         [] outcome = "NotImplementedError" -> Goto(p, "BuildService.except")
         [] OTHER -> Finish(p, Raises("HttpError"))
  /\ UNCHANGED <<credentials_store, lifecycle, service_account, admin_group, memcache, directory,
                 call, local>>

\* mutant: the handler deletes the stored credentials only when they were the
\* ones in use (no credentials argument)
BuildServiceExcept_KeepIfExplicit(p) ==
  /\ pc[p] = "BuildService.except"
  /\ credentials_store' = IF CredentialsArgument(p) = "None" THEN "None" ELSE credentials_store
  /\ lifecycle' = IF CredentialsArgument(p) = "None" THEN "invalidated" ELSE lifecycle
  /\ Log(p, <<"credentials.delete">>)
  /\ Finish(p, Raises(InvalidPemError))
  /\ UNCHANGED <<service_account, admin_group, memcache, directory, call, local>>

\* BuildService, lines 90-97: the NotImplementedError handler
BuildServiceExcept(p) ==
  /\ pc[p] = "BuildService.except"
  /\ credentials_store' = "None"
  /\ lifecycle' = "invalidated"
  /\ Log(p, <<"credentials.delete">>)
  /\ Finish(p, Raises(InvalidPemError))
  /\ UNCHANGED <<service_account, admin_group, memcache, directory, call, local>>

\* mutant: GetUserInfo keeps what it fetched in memcache (the TODO of line 138)
UsersGet_Memcached(p) ==
  /\ pc[p] = "users.get"
  /\ Log(p, <<"users.get">>)
  /\ \E outcome \in {"ok", "AccessTokenRefreshError", "HttpError"} :
       CASE outcome = "ok" ->
              /\ local' = [local EXCEPT ![p].user_info = <<directory[call[p].user_email]>>]
              /\ memcache' = MemcacheSet(AdminCacheKey,
                                         IF IsAdminFlag(directory[call[p].user_email])
                                           THEN <<call[p].user_email>> ELSE <<>>,
                                         MEMCACHE_EXPIRATION_TIME_IN_SECONDS)
              /\ IF call[p].op = "IsInAdminGroup"
                   THEN Goto(p, "isAdmin")
                   ELSE Finish(p, Returns(directory[call[p].user_email]))
         [] outcome = "AccessTokenRefreshError" /\ call[p].op = "IsInAdminGroup" ->
              /\ Goto(p, "IsInAdminGroup.except")
              /\ UNCHANGED <<local, memcache>>
         [] OTHER ->
              /\ Finish(p, Raises(outcome))
              /\ UNCHANGED <<local, memcache>>
  /\ UNCHANGED <<credentials_store, lifecycle, service_account, admin_group, directory, call>>

\* GetUserInfo, lines 171-172, and what IsInAdminGroup does with its outcome
\* (lines 133-135)
UsersGet(p) ==
  /\ pc[p] = "users.get"
  /\ Log(p, <<"users.get">>)
  /\ \E outcome \in {"ok", "AccessTokenRefreshError", "HttpError"} :
       CASE outcome = "ok" ->
              /\ local' = [local EXCEPT ![p].user_info = <<directory[call[p].user_email]>>]
              /\ IF call[p].op = "IsInAdminGroup"
                   THEN Goto(p, "isAdmin")
                   ELSE Finish(p, Returns(directory[call[p].user_email]))
         [] outcome = "AccessTokenRefreshError" /\ call[p].op = "IsInAdminGroup" ->
              /\ Goto(p, "IsInAdminGroup.except")
              /\ UNCHANGED local
         [] OTHER ->
              /\ Finish(p, Raises(outcome))
              /\ UNCHANGED local
  /\ UNCHANGED <<credentials_store, lifecycle, service_account, admin_group, memcache, directory, call>>

\* UpdateUserInfo, lines 183-184
UsersUpdate(p) ==
  /\ pc[p] = "users.update"
  /\ Log(p, <<"users.update">>)
  /\ \E outcome \in {"ok", "AccessTokenRefreshError", "HttpError"} :
       IF outcome = "ok"
         THEN /\ directory' = [directory EXCEPT ![call[p].user_email] = call[p].new_user_info]
              /\ Finish(p, Returns("None"))
         ELSE /\ Finish(p, Raises(outcome))
              /\ UNCHANGED directory
  /\ UNCHANGED <<credentials_store, lifecycle, service_account, admin_group, memcache, call, local>>

\* mutant: deleting credentials that are already gone fails, and that error
\* replaces SetupNeeded
IsInAdminGroupExcept_DeleteMustExist(p) ==
  /\ pc[p] = "IsInAdminGroup.except"
  /\ credentials_store' = "None"
  /\ lifecycle' = "invalidated"
  /\ Log(p, <<"credentials.delete">>)
  /\ IF credentials_store = "None"
       THEN Finish(p, Raises("NotFoundError"))
       ELSE Finish(p, Raises("SetupNeeded"))
  /\ UNCHANGED <<service_account, admin_group, memcache, directory, call, local>>

\* mutant: the handler raises SetupNeeded and leaves the stored credentials
IsInAdminGroupExcept_NoDelete(p) ==
  /\ pc[p] = "IsInAdminGroup.except"
  /\ Finish(p, Raises("SetupNeeded"))
  /\ UNCHANGED <<credentials_store, lifecycle, service_account, admin_group, memcache, directory,
                 call, local, trace>>

\* IsInAdminGroup, lines 135-137: the AccessTokenRefreshError handler
IsInAdminGroupExcept(p) ==
  /\ pc[p] = "IsInAdminGroup.except"
  /\ credentials_store' = "None"
  /\ lifecycle' = "invalidated"
  /\ Log(p, <<"credentials.delete">>)
  /\ Finish(p, Raises("SetupNeeded"))
  /\ UNCHANGED <<service_account, admin_group, memcache, directory, call, local>>

\* mutant: the admin_group setting is required before the isAdmin flag is looked at
IsAdminCheck_SettingFirst(p) ==
  /\ pc[p] = "isAdmin"
  /\ Log(p, <<"Setting.get">>)
  /\ IF admin_group = "None"
       THEN Finish(p, Raises(AdminGroupError))
       ELSE IF IsAdminFlag(local[p].user_info[1])
         THEN Finish(p, Returns(TRUE))
         ELSE Goto(p, "memcache.get")
  /\ UNCHANGED <<credentials_store, lifecycle, service_account, admin_group, memcache, directory,
                 call, local>>

\* mutant: the admin_group setting is not required at all
IsAdminCheck_NoSetting(p) ==
  /\ pc[p] = "isAdmin"
  /\ IF IsAdminFlag(local[p].user_info[1])
       THEN Finish(p, Returns(TRUE))
       ELSE Goto(p, "memcache.get")
  /\ UNCHANGED <<credentials_store, lifecycle, service_account, admin_group, memcache, directory,
                 call, local, trace>>

\* IsInAdminGroup, lines 139-144: the isAdmin flag, then the admin_group setting
IsAdminCheck(p) ==
  /\ pc[p] = "isAdmin"
  /\ IF IsAdminFlag(local[p].user_info[1])
       THEN /\ Finish(p, Returns(TRUE))
            /\ UNCHANGED trace
       ELSE /\ Log(p, <<"Setting.get">>)
            /\ IF admin_group = "None"
                 THEN Finish(p, Raises(AdminGroupError))
                 ELSE Goto(p, "memcache.get")
  /\ UNCHANGED <<credentials_store, lifecycle, service_account, admin_group, memcache, directory,
                 call, local>>

\* mutant: "if cached_admin_emails:", so that an empty cached list counts as a miss
MemcacheGet_EmptyIsMiss(p) ==
  /\ pc[p] = "memcache.get"
  /\ Log(p, <<"memcache.get">>)
  /\ LET cached_admin_emails == MemcacheGetValue(memcache, AdminCacheKey) IN
       IF cached_admin_emails # <<>> /\ cached_admin_emails[1] # <<>>
         THEN /\ Finish(p, Returns(InList(call[p].user_email, cached_admin_emails[1])))
              /\ local' = [local EXCEPT ![p].cached_admin_emails = cached_admin_emails]
         ELSE /\ Goto(p, "_GetAuthorizedHttp")
              /\ local' = [local EXCEPT ![p].site = "_GetAdminEmails"]
  /\ UNCHANGED <<credentials_store, lifecycle, service_account, admin_group, memcache, directory, call>>

\* IsInAdminGroup, lines 145-155: the cache lookup; a miss enters _GetAdminEmails
MemcacheGet(p) ==
  /\ pc[p] = "memcache.get"
  /\ Log(p, <<"memcache.get">>)
  /\ LET cached_admin_emails == MemcacheGetValue(memcache, AdminCacheKey) IN
       IF cached_admin_emails # <<>>
         THEN /\ Finish(p, Returns(InList(call[p].user_email, cached_admin_emails[1])))
              /\ local' = [local EXCEPT ![p].cached_admin_emails = cached_admin_emails]
         ELSE /\ Goto(p, "_GetAuthorizedHttp")
              /\ local' = [local EXCEPT ![p].site = "_GetAdminEmails"]
  /\ UNCHANGED <<credentials_store, lifecycle, service_account, admin_group, memcache, directory, call>>

\* mutant: a failed listing is swallowed into an empty admin list that is cached
MembersList_EmptyOnFailure(p) ==
  /\ pc[p] = "members.list"
  /\ Log(p, <<"Setting.get", "members.list">>)
  /\ \E outcome \in {"ok", "AccessTokenRefreshError", "HttpError"} :
       IF outcome = "ok"
         THEN /\ \E members \in MemberLists :
                   local' = [local EXCEPT ![p].admin_group_info = <<[members |-> members]>>]
              /\ Goto(p, "memcache.set")
              /\ UNCHANGED memcache
         ELSE /\ Finish(p, Raises(outcome))
              /\ memcache' = MemcacheSet(AdminCacheKey, <<>>, MEMCACHE_EXPIRATION_TIME_IN_SECONDS)
              /\ UNCHANGED local
  /\ UNCHANGED <<credentials_store, lifecycle, service_account, admin_group, directory, call>>

\* mutant: the listing follows a second page, a second remote call
MembersList_SecondPage(p) ==
  /\ pc[p] = "members.list"
  /\ Log(p, <<"Setting.get", "members.list", "members.list">>)
  /\ \E outcome \in {"ok", "AccessTokenRefreshError", "HttpError"} :
       IF outcome = "ok"
         THEN /\ \E members \in MemberLists :
                   local' = [local EXCEPT ![p].admin_group_info = <<[members |-> members]>>]
              /\ Goto(p, "memcache.set")
         ELSE /\ Finish(p, Raises(outcome))
              /\ UNCHANGED local
  /\ UNCHANGED <<credentials_store, lifecycle, service_account, admin_group, memcache, directory, call>>

\* _GetAdminEmails, lines 107-108: the group-members listing
MembersList(p) ==
  /\ pc[p] = "members.list"
  /\ Log(p, <<"Setting.get", "members.list">>)
  /\ \E outcome \in {"ok", "AccessTokenRefreshError", "HttpError"} :
       IF outcome = "ok"
         THEN /\ \E members \in MemberLists :
                   local' = [local EXCEPT ![p].admin_group_info = <<[members |-> members]>>]
              /\ Goto(p, "memcache.set")
         ELSE /\ Finish(p, Raises(outcome))
              /\ UNCHANGED local
  /\ UNCHANGED <<credentials_store, lifecycle, service_account, admin_group, memcache, directory, call>>

\* mutant: memcache.add in place of memcache.set, which keeps a live entry that
\* another caller has written meanwhile
MemcacheFill_Add(p) ==
  /\ pc[p] = "memcache.set"
  /\ LET admin_emails == AdminEmails(local[p].admin_group_info[1].members) IN
       /\ memcache' = IF MemcacheGetValue(memcache, AdminCacheKey) # <<>>
                        THEN memcache
                        ELSE MemcacheSet(AdminCacheKey, admin_emails,
                                         MEMCACHE_EXPIRATION_TIME_IN_SECONDS)
       /\ Finish(p, Returns(InList(call[p].user_email, admin_emails)))
  /\ Log(p, <<"memcache.set">>)
  /\ UNCHANGED <<credentials_store, lifecycle, service_account, admin_group, directory, call, local>>

\* mutant: memcache.set without the expiration time, an entry that never expires
MemcacheFill_NoExpiration(p) ==
  /\ pc[p] = "memcache.set"
  /\ LET admin_emails == AdminEmails(local[p].admin_group_info[1].members) IN
       /\ memcache' = MemcacheSet(AdminCacheKey, admin_emails, 0)
       /\ Finish(p, Returns(InList(call[p].user_email, admin_emails)))
  /\ Log(p, <<"memcache.set">>)
  /\ UNCHANGED <<credentials_store, lifecycle, service_account, admin_group, directory, call, local>>

\* _GetAdminEmails, lines 109-114, and IsInAdminGroup, lines 155-158
MemcacheFill(p) ==
  /\ pc[p] = "memcache.set"
  /\ LET admin_emails == AdminEmails(local[p].admin_group_info[1].members) IN
       /\ memcache' = MemcacheSet(AdminCacheKey, admin_emails,
                                  MEMCACHE_EXPIRATION_TIME_IN_SECONDS)
       /\ Finish(p, Returns(InList(call[p].user_email, admin_emails)))
  /\ Log(p, <<"memcache.set">>)
  /\ UNCHANGED <<credentials_store, lifecycle, service_account, admin_group, directory, call, local>>

(****************************** the environment ****************************)
\* time passes: the stored entry ages, until it has expired
Tick ==
  /\ AdminCacheKey \in DOMAIN memcache
  /\ ~Expired(memcache[AdminCacheKey])
  /\ memcache[AdminCacheKey].age < MaxAge
  /\ memcache' = [memcache EXCEPT ![AdminCacheKey].age = @ + TickSeconds]
  /\ UNCHANGED <<credentials_store, lifecycle, service_account, admin_group, directory,
                 pc, call, local, result, trace>>

\* memcache drops a stored entry, expired or before its time
Evict ==
  /\ AdminCacheKey \in DOMAIN memcache
  /\ memcache' = <<>>
  /\ UNCHANGED <<credentials_store, lifecycle, service_account, admin_group, directory,
                 pc, call, local, result, trace>>

\* the setup flow stores credentials for the domain
SetupStoresCredentials ==
  /\ credentials_store = "None"
  /\ credentials_store' = StoredCredentials
  /\ lifecycle' = IF lifecycle = "invalidated" THEN "recreated" ELSE lifecycle
  /\ UNCHANGED <<service_account, admin_group, memcache, directory,
                 pc, call, local, result, trace>>

Step(p) ==
  \/ Call(p)
  \/ AuthorizedHttp(p)
  \/ Build(p)
  \/ BuildServiceExcept(p)
  \/ UsersGet(p)
  \/ UsersUpdate(p)
  \/ IsInAdminGroupExcept(p)
  \/ IsAdminCheck(p)
  \/ MemcacheGet(p)
  \/ MembersList(p)
  \/ MemcacheFill(p)

Next ==
  \/ \E p \in Procs : Step(p)
  \/ Tick
  \/ Evict
  \/ SetupStoresCredentials

Spec == Init /\ [][Next]_vars

(*************************** concurrent requests ***************************)
\* Two requests are served at the same time; each calls IsInAdminGroup once
\* and their steps interleave freely.  The setup flow does not run meanwhile.
InitConcurrent ==
  /\ credentials_store \in {"None", StoredCredentials}
  /\ lifecycle = "initial"
  /\ service_account \in BOOLEAN
  /\ admin_group \in {"None", "admins@x.com"}
  /\ memcache = <<>>
  /\ directory \in [Users -> UserRecords]
  /\ pc = [p \in Procs |-> "idle"]
  /\ call = [p \in Procs |-> NoCall]
  /\ local = [p \in Procs |-> NoLocal]
  /\ result = [p \in Procs |-> NoResult]
  /\ trace = [p \in Procs |-> <<>>]

CallIsInAdminGroup(p) ==
  /\ pc[p] = "idle"
  /\ Call(p)
  /\ call'[p].op = "IsInAdminGroup"

StepConcurrent(p) ==
  \/ CallIsInAdminGroup(p)
  \/ AuthorizedHttp(p)
  \/ Build(p)
  \/ BuildServiceExcept(p)
  \/ UsersGet(p)
  \/ IsInAdminGroupExcept(p)
  \/ IsAdminCheck(p)
  \/ MemcacheGet(p)
  \/ MembersList(p)
  \/ MemcacheFill(p)

NextConcurrent ==
  \/ \E p \in Procs : StepConcurrent(p)
  \/ Tick
  \/ Evict

SpecConcurrent == InitConcurrent /\ [][NextConcurrent]_vars

(******************************* the claims ********************************)
Has(p, e) == \E i \in DOMAIN trace[p] : trace[p][i] = e
Count(p, e) == Cardinality({i \in DOMAIN trace[p] : trace[p][i] = e})
Last(seq) == seq[Len(seq)]
EndsWith(p, events) ==
  /\ Len(trace[p]) >= Len(events)
  /\ SubSeq(trace[p], Len(trace[p]) - Len(events) + 1, Len(trace[p])) = events
Elements(seq) == {seq[i] : i \in DOMAIN seq}

\* the admin-email entry is present: stored, and less than 600 seconds old
EntryPresent ==
  AdminCacheKey \in DOMAIN memcache /\ memcache[AdminCacheKey].age < 600

CacheEvents == {"memcache.get", "memcache.set"}
RemoteEvents == {"users.get", "users.update", "members.list"}

\* the invocation of p is an IsInAdminGroup that has fetched the record of a
\* user whose isAdmin flag is / is not true
FetchedAdmin(p) ==
  /\ call[p].op = "IsInAdminGroup"
  /\ local[p].user_info # <<>>
  /\ "isAdmin" \in DOMAIN local[p].user_info[1]
  /\ local[p].user_info[1]["isAdmin"] = TRUE
FetchedNonAdmin(p) ==
  /\ call[p].op = "IsInAdminGroup"
  /\ local[p].user_info # <<>>
  /\ ~FetchedAdmin(p)

\* C1: an IsInAdminGroup whose get-user call returned a record with isAdmin
\* true returns True, and its invocation reads or writes no cache entry, reads
\* no admin_group setting and lists no group members, whatever the cache
\* holds and whether or not admin_group is configured.
C1_DomainAdminReturnsTrue ==
  \A p \in Procs :
    FetchedAdmin(p) =>
      /\ pc[p] \in {"isAdmin", "done"}
      /\ pc[p] = "done" => (result[p].kind = "return" /\ result[p].value = TRUE)
      /\ \A e \in CacheEvents \cup {"Setting.get", "members.list"} : ~Has(p, e)

C1_Witness ==
  \E p \in Procs :
    /\ FetchedAdmin(p) /\ pc[p] = "done" /\ result[p] = Returns(TRUE)
    /\ admin_group = "None"

\* C2: on a cache hit (the entry is present, empty or not) IsInAdminGroup
\* returns whether the user's email is an element of the cached list, lists
\* no group members and leaves the entry as it is; with an empty cached list
\* it returns False.
C2_HitInvocation ==
  \A p \in Procs :
    (call[p].op = "IsInAdminGroup" /\ local[p].cached_admin_emails # <<>>) =>
      /\ pc[p] = "done"
      /\ FetchedNonAdmin(p) /\ admin_group # "None"
      /\ result[p].kind = "return"
      /\ result[p].value = (call[p].user_email \in Elements(local[p].cached_admin_emails[1]))
      /\ local[p].cached_admin_emails[1] = <<>> => result[p].value = FALSE
      /\ ~Has(p, "members.list") /\ ~Has(p, "memcache.set")
      /\ Last(trace[p]) = "memcache.get"

C2_HitStep ==
  \A p \in Procs :
    (pc[p] = "memcache.get" /\ pc'[p] # "memcache.get" /\ EntryPresent) =>
      /\ memcache' = memcache
      /\ local'[p].cached_admin_emails = <<memcache[AdminCacheKey].value>>
      /\ pc'[p] = "done"

C2_CacheHit == []C2_HitInvocation /\ [][C2_HitStep]_vars

C2_Witness ==
  \E p \in Procs :
    /\ call[p].op = "IsInAdminGroup" /\ pc[p] = "done"
    /\ local[p].cached_admin_emails = << <<>> >>
    /\ result[p] = Returns(FALSE)
    /\ EntryPresent

\* C3: on a cache miss IsInAdminGroup lists the group members once (never
\* twice, and once unless BuildService fails before the listing); when the
\* listing succeeds the cache entry becomes the members' emails in the order
\* returned, to live 600 seconds, and the result is whether the user's email
\* is among them.
MissInvocation(p) == call[p].op = "IsInAdminGroup" /\ local[p].site = "_GetAdminEmails"

C3_MissInvocation ==
  \A p \in Procs :
    MissInvocation(p) =>
      /\ FetchedNonAdmin(p) /\ admin_group # "None"
      /\ Count(p, "memcache.get") = 1 /\ local[p].cached_admin_emails = <<>>
      /\ Count(p, "members.list") <= 1
      /\ pc[p] = "done" =>
           \/ Count(p, "members.list") = 1
           \/ /\ result[p].kind = "raise"
              /\ Last(trace[p]) \in {"credentials.get", "build", "credentials.delete"}
      /\ pc[p] = "done" /\ result[p].kind = "return" => local[p].admin_group_info # <<>>
      /\ local[p].admin_group_info # <<>> =>
           /\ Count(p, "members.list") = 1
           /\ pc[p] \in {"memcache.set", "done"}
           /\ pc[p] = "done" =>
                /\ result[p].kind = "return"
                /\ result[p].value =
                     (\E i \in DOMAIN local[p].admin_group_info[1].members :
                        local[p].admin_group_info[1].members[i].email = call[p].user_email)
                /\ Last(trace[p]) = "memcache.set"
                /\ Count(p, "memcache.set") = 1

C3_FillStep ==
  \A p \in Procs :
    (pc[p] = "memcache.set" /\ pc'[p] # "memcache.set") =>
      LET members == local[p].admin_group_info[1].members IN
        /\ DOMAIN memcache' = {AdminCacheKey}
        /\ Len(memcache'[AdminCacheKey].value) = Len(members)
        /\ \A i \in DOMAIN members : memcache'[AdminCacheKey].value[i] = members[i].email
        /\ memcache'[AdminCacheKey].time = 600
        /\ memcache'[AdminCacheKey].age = 0

C3_CacheMiss == []C3_MissInvocation /\ [][C3_FillStep]_vars

C3_Witness ==
  \E p \in Procs :
    /\ MissInvocation(p) /\ pc[p] = "done" /\ result[p] = Returns(TRUE)
    /\ Len(local[p].admin_group_info[1].members) = 2
    /\ local[p].admin_group_info[1].members[2].email = call[p].user_email
    /\ EntryPresent
    /\ memcache[AdminCacheKey].value = AdminEmails(local[p].admin_group_info[1].members)

\* C4: when the get-user call of IsInAdminGroup raises the refresh-token
\* error, the stored credentials are deleted and then SetupNeeded is raised,
\* and the invocation neither reads nor writes the cache or the settings.
C4_ExceptInvocation ==
  \A p \in Procs :
    /\ pc[p] = "IsInAdminGroup.except" =>
         /\ call[p].op = "IsInAdminGroup" /\ Last(trace[p]) = "users.get"
         /\ result[p].kind = "none"
         /\ \A e \in CacheEvents \cup {"Setting.get"} : ~Has(p, e)
    /\ (pc[p] = "done" /\ call[p].op = "IsInAdminGroup"
          /\ EndsWith(p, <<"users.get", "credentials.delete">>)) =>
         /\ result[p] = Raises("SetupNeeded")
         /\ \A e \in CacheEvents \cup {"Setting.get"} : ~Has(p, e)

C4_ExceptStep ==
  \A p \in Procs :
    (pc[p] = "IsInAdminGroup.except" /\ pc'[p] # pc[p]) =>
      /\ credentials_store' = "None"
      /\ pc'[p] = "done" /\ result'[p] = Raises("SetupNeeded")
      /\ trace'[p] = Append(trace[p], "credentials.delete")
      /\ memcache' = memcache /\ admin_group' = admin_group

C4_CredentialInvalidation == []C4_ExceptInvocation /\ [][C4_ExceptStep]_vars

C4_Witness ==
  \E p \in Procs :
    /\ pc[p] = "done" /\ call[p].op = "IsInAdminGroup"
    /\ EndsWith(p, <<"users.get", "credentials.delete">>)
    /\ Has(p, "credentials.get")
    /\ credentials_store = "None"
    /\ result[p] = Raises("SetupNeeded")

\* C5 as stated: with no admin_group setting, IsInAdminGroup for a user who is
\* no domain admin fails with the configuration error before any cache access
\* and before any remote Directory API access of the invocation.
C5_NoAccessBeforeConfigurationError ==
  \A p \in Procs :
    (pc[p] = "done" /\ call[p].op = "IsInAdminGroup" /\ result[p].kind = "raise"
       /\ result[p].value = AdminGroupError) =>
      \A e \in CacheEvents \cup RemoteEvents : ~Has(p, e)

\* C5 as amended: with no admin_group setting, IsInAdminGroup for a user who
\* is no domain admin fails with the configuration error before any cache
\* access and before any group-members listing; the get-user call, the one
\* remote access of the invocation, has been made before.
C5_ConfigurationErrorAfterGetUser ==
  \A p \in Procs :
    /\ (FetchedNonAdmin(p) /\ admin_group = "None") =>
         /\ pc[p] \in {"isAdmin", "done"}
         /\ pc[p] = "done" => result[p] = Raises(AdminGroupError)
    /\ (pc[p] = "done" /\ call[p].op = "IsInAdminGroup" /\ result[p].kind = "raise"
          /\ result[p].value = AdminGroupError) =>
         /\ admin_group = "None" /\ FetchedNonAdmin(p)
         /\ \A e \in CacheEvents \cup {"members.list", "users.update"} : ~Has(p, e)
         /\ Count(p, "users.get") = 1
         /\ EndsWith(p, <<"users.get", "Setting.get">>)

C5_Witness ==
  \E p \in Procs :
    /\ pc[p] = "done" /\ call[p].op = "IsInAdminGroup"
    /\ result[p] = Raises(AdminGroupError)
    /\ FetchedNonAdmin(p) /\ ~("isAdmin" \in DOMAIN local[p].user_info[1])
    /\ Has(p, "users.get")

\* the events the step of p has added to its trace
NewEvents(p) == SubSeq(trace'[p], Len(trace[p]) + 1, Len(trace'[p]))

\* the credentials a caller passed explicitly: only BuildService takes any
ExplicitArgument(p) ==
  IF local[p].site = "BuildService" THEN call[p].credentials ELSE "None"

\* C6: the credential lookup tries the explicit argument, then the stored
\* credentials, then (in service-account mode only) the key file, and stops
\* at the first that yields credentials; it raises SetupNeeded exactly when
\* there is no argument, nothing stored and no service-account mode; it
\* never writes or deletes the credential store.
C6_LookupStep ==
  \A p \in Procs :
    (pc[p] = "_GetAuthorizedHttp" /\ pc'[p] # pc[p]) =>
      /\ credentials_store' = credentials_store
      /\ ExplicitArgument(p) # "None" =>
           /\ local'[p].credentials = ExplicitArgument(p)
           /\ NewEvents(p) = <<>>
      /\ (ExplicitArgument(p) = "None" /\ credentials_store # "None") =>
           /\ local'[p].credentials = credentials_store
           /\ NewEvents(p) = <<"credentials.get">>
      /\ (ExplicitArgument(p) = "None" /\ credentials_store = "None" /\ service_account) =>
           /\ local'[p].credentials = PemCredentials
           /\ NewEvents(p) = <<"credentials.get", "LoadCredentialsFromPem">>
      /\ (pc'[p] = "done" /\ result'[p] = Raises("SetupNeeded"))
           <=> (ExplicitArgument(p) = "None" /\ credentials_store = "None" /\ ~service_account)
      /\ pc'[p] \in {"done", "build"}
      /\ pc'[p] = "build" => result'[p] = result[p]

C6_CredentialLookupOrder == [][C6_LookupStep]_vars

C6_Witness ==
  \E p \in Procs :
    /\ call[p].op = "BuildService" /\ pc[p] = "build"
    /\ call[p].credentials = ExplicitCredentials
    /\ local[p].credentials = ExplicitCredentials
    /\ credentials_store = StoredCredentials /\ service_account
    /\ trace[p] = <<>>

\* C7: when building the client fails with NotImplementedError (the invalid
\* credential format), the stored credentials are deleted and the builder
\* fails with the invalid-key error, with or without explicit credentials;
\* every other failure, SetupNeeded included, propagates as it is and leaves
\* the stored credentials; so does a successful build.
C7_BuilderInvocation ==
  \A p \in Procs :
    /\ pc[p] = "BuildService.except" => (Last(trace[p]) = "build" /\ result[p].kind = "none")
    /\ (pc[p] = "done" /\ call[p].op = "BuildService") =>
         /\ result[p].value \in {"service", "SetupNeeded", "HttpError", InvalidPemError}
         /\ result[p].kind = "return" <=> result[p].value = "service"
         /\ result[p].value = InvalidPemError <=> EndsWith(p, <<"build", "credentials.delete">>)
         /\ result[p].value # InvalidPemError => ~Has(p, "credentials.delete")
         /\ result[p].value = "SetupNeeded" => ~Has(p, "build")

C7_BuilderStep ==
  \A p \in Procs :
    /\ (pc[p] = "BuildService.except" /\ pc'[p] # pc[p]) =>
         /\ credentials_store' = "None"
         /\ pc'[p] = "done" /\ result'[p] = Raises(InvalidPemError)
    /\ (pc[p] \in {"_GetAuthorizedHttp", "build"} /\ pc'[p] # pc[p]) =>
         /\ credentials_store' = credentials_store
         /\ pc'[p] = "done" =>
              result'[p] \in {Raises("SetupNeeded"), Raises("HttpError"), Returns("service")}

C7_ServiceBuilderFailures == []C7_BuilderInvocation /\ [][C7_BuilderStep]_vars

C7_Witness ==
  \E p \in Procs :
    /\ pc[p] = "done" /\ call[p].op = "BuildService"
    /\ call[p].credentials = ExplicitCredentials
    /\ result[p] = Raises(InvalidPemError)
    /\ trace[p] = <<"build", "credentials.delete">>
    /\ credentials_store = "None"

\* C8 as stated: in every operation that makes a remote call (GetUserInfo,
\* UpdateUserInfo, the get-user step and the listing step of IsInAdminGroup)
\* a refresh-token failure ends in the stored credentials deleted and
\* SetupNeeded raised: no invocation ends with the refresh-token error itself.
C8_RefreshFailureRaisesSetupNeeded ==
  \A p \in Procs :
    (pc[p] = "done" /\ result[p].kind = "raise") =>
      result[p].value # "AccessTokenRefreshError"

\* C9: GetUserInfo caches nothing: every call that returns a record has made
\* one remote get-user call of its own, returns the record the directory
\* holds, and leaves the cache and the stored credentials alone; the
\* directory's records change only by a successful UpdateUserInfo, to the
\* record it sent.
C9_GetInvocation ==
  \A p \in Procs :
    (pc[p] = "done" /\ call[p].op = "GetUserInfo" /\ result[p].kind = "return") =>
      /\ result[p].value = directory[call[p].user_email]
      /\ Count(p, "users.get") = 1 /\ Last(trace[p]) = "users.get"
      /\ \A e \in CacheEvents \cup {"credentials.delete", "users.update"} : ~Has(p, e)

C9_GetStep ==
  \A p \in Procs :
    (call[p].op = "GetUserInfo" /\ pc[p] = "users.get" /\ pc'[p] # pc[p]
       /\ result'[p].kind = "return") =>
      /\ result'[p].value = directory[call[p].user_email]
      /\ memcache' = memcache /\ credentials_store' = credentials_store
      /\ directory' = directory

C9_UpdateStep ==
  directory' # directory =>
    \E p \in Procs :
      /\ call[p].op = "UpdateUserInfo" /\ pc[p] = "users.update"
      /\ result'[p] = Returns("None")
      /\ directory'[call[p].user_email] = call[p].new_user_info
      /\ \A u \in Users \ {call[p].user_email} : directory'[u] = directory[u]

C9_GetUserInfoNotCached ==
  []C9_GetInvocation /\ [][C9_GetStep /\ C9_UpdateStep]_vars

C9_Witness ==
  \E p \in Procs :
    /\ pc[p] = "done" /\ call[p].op = "GetUserInfo"
    /\ result[p] = Returns(directory[call[p].user_email])
    /\ trace[p] = <<"credentials.get", "build", "users.get">>
    /\ EntryPresent

\* C10: an entry that memcache.get still returns was written by a successful
\* group-members listing less than 600 seconds ago; an entry 600 seconds old
\* is absent to memcache.get; absence sends IsInAdminGroup to the listing
\* and never counts as an empty list; and the IsInAdminGroup that finds the
\* entry absent and returns has listed the members and rewritten the entry.
C10_Fresh ==
  /\ MemcacheGetValue(memcache, AdminCacheKey) # <<>> => memcache[AdminCacheKey].age < 600
  /\ (AdminCacheKey \in DOMAIN memcache /\ memcache[AdminCacheKey].age >= 600) =>
       MemcacheGetValue(memcache, AdminCacheKey) = <<>>
  /\ \A p \in Procs :
       (MissInvocation(p) /\ pc[p] = "done" /\ result[p].kind = "return") =>
         /\ Count(p, "members.list") = 1
         /\ EndsWith(p, <<"members.list", "memcache.set">>)

C10_WriteStep ==
  memcache' # memcache =>
    \/ \E p \in Procs :
         /\ pc[p] = "memcache.set" /\ Has(p, "members.list")
         /\ local[p].admin_group_info # <<>>
         /\ DOMAIN memcache' = {AdminCacheKey}
         /\ memcache'[AdminCacheKey].age = 0
         /\ Len(memcache'[AdminCacheKey].value) = Len(local[p].admin_group_info[1].members)
         /\ \A i \in DOMAIN local[p].admin_group_info[1].members :
              memcache'[AdminCacheKey].value[i] = local[p].admin_group_info[1].members[i].email
    \/ /\ AdminCacheKey \in DOMAIN memcache
       /\ \/ DOMAIN memcache' = {}
          \/ /\ DOMAIN memcache' = {AdminCacheKey}
             /\ memcache'[AdminCacheKey].value = memcache[AdminCacheKey].value
             /\ memcache'[AdminCacheKey].age > memcache[AdminCacheKey].age

C10_AbsentStep ==
  \A p \in Procs :
    (pc[p] = "memcache.get" /\ pc'[p] # pc[p] /\ ~EntryPresent) =>
      /\ pc'[p] = "_GetAuthorizedHttp" /\ local'[p].site = "_GetAdminEmails"
      /\ result'[p].kind = "none"
      /\ memcache' = memcache

C10_CacheFreshness == []C10_Fresh /\ [][C10_WriteStep /\ C10_AbsentStep]_vars

C10_Witness ==
  \E p \in Procs :
    /\ MissInvocation(p) /\ pc[p] = "memcache.set"
    /\ AdminCacheKey \in DOMAIN memcache /\ memcache[AdminCacheKey].age >= 600
    /\ memcache[AdminCacheKey].value # AdminEmails(local[p].admin_group_info[1].members)

\* the remote Directory API calls and the cache accesses of p's invocation
RemoteCalls(p) == {i \in DOMAIN trace[p] : trace[p][i] \in RemoteEvents}
CacheAccesses(p) == {i \in DOMAIN trace[p] : trace[p][i] \in CacheEvents}
Position(p, e) == CHOOSE i \in DOMAIN trace[p] : trace[p][i] = e

\* C11 as stated: every operation is a single remote call or a single cache
\* access: no invocation makes more than one remote Directory API call or
\* combines a remote call with a cache access, and none fails after a remote
\* step of its own has succeeded.
C11_SingleCallOrSingleCacheAccess ==
  \A p \in Procs :
    /\ Cardinality(RemoteCalls(p)) <= 1
    /\ ~(RemoteCalls(p) # {} /\ CacheAccesses(p) # {})
    /\ (pc[p] = "done" /\ result[p].kind = "raise") => local[p].user_info = <<>>

\* C11 as amended: GetUserInfo and UpdateUserInfo are a single remote call
\* and no cache access; IsInAdminGroup is a get-user call followed, for a
\* user who is no domain admin, by one cache read and, on a miss, by one
\* group-members listing and one cache write, each at most once and in that
\* order.
C11_StepsOfEachOperation ==
  \A p \in Procs :
    /\ call[p].op \in {"GetUserInfo", "UpdateUserInfo", "BuildService", "None"} =>
         /\ Cardinality(RemoteCalls(p)) <= 1
         /\ CacheAccesses(p) = {}
         /\ ~Has(p, "members.list")
         /\ Has(p, "users.get") => call[p].op = "GetUserInfo"
         /\ Has(p, "users.update") => call[p].op = "UpdateUserInfo"
    /\ call[p].op = "IsInAdminGroup" =>
         /\ \A e \in {"users.get", "members.list", "memcache.get", "memcache.set"} :
              Count(p, e) <= 1
         /\ ~Has(p, "users.update")
         /\ Has(p, "memcache.get") =>
              (FetchedNonAdmin(p) /\ Position(p, "users.get") < Position(p, "memcache.get"))
         /\ Has(p, "members.list") =>
              (Has(p, "memcache.get") /\ local[p].cached_admin_emails = <<>>
                 /\ Position(p, "memcache.get") < Position(p, "members.list"))
         /\ Has(p, "memcache.set") =>
              (Has(p, "members.list") /\ local[p].admin_group_info # <<>>
                 /\ Last(trace[p]) = "memcache.set")

\* an IsInAdminGroup that failed in its listing, after its get-user call and
\* its cache read had succeeded
C11_Witness ==
  \E p \in Procs :
    /\ call[p].op = "IsInAdminGroup" /\ pc[p] = "done"
    /\ result[p] = Raises("HttpError")
    /\ Has(p, "users.get") /\ Has(p, "memcache.get") /\ Last(trace[p]) = "members.list"
    /\ local[p].user_info # <<>>

RemoteFailures == {"HttpError", "AccessTokenRefreshError"}

\* C12: each remote call (get user, update user, list members) is attempted
\* at most once in an invocation; a remote failure, other than the refresh
\* failure of IsInAdminGroup's get-user step, ends the invocation with that
\* failure raised to the caller and with the stored credentials and the
\* cache as they were: a failed listing on a miss leaves the entry absent.
C12_AttemptedOnce ==
  \A p \in Procs :
    /\ \A e \in RemoteEvents : Count(p, e) <= 1
    /\ (pc[p] = "done" /\ result[p].kind = "raise" /\ result[p].value \in RemoteFailures) =>
         /\ Last(trace[p]) \in RemoteEvents \cup {"build"}
         /\ ~Has(p, "credentials.delete") /\ ~Has(p, "memcache.set")
         /\ (call[p].op = "IsInAdminGroup" /\ Last(trace[p]) = "users.get") =>
              result[p].value = "HttpError"

C12_FailureStep ==
  \A p \in Procs :
    (pc[p] \in RemoteEvents \cup {"build"} /\ pc'[p] # pc[p] /\ result'[p].kind = "raise") =>
      /\ pc'[p] = "done"
      /\ result'[p].value \in RemoteFailures
      /\ Last(trace'[p]) = pc[p]
      /\ pc[p] \in RemoteEvents => Count(p, pc[p]) = 0
      /\ credentials_store' = credentials_store
      /\ memcache' = memcache
      /\ directory' = directory
      /\ pc[p] = "members.list" => MemcacheGetValue(memcache', AdminCacheKey) = <<>>

ObservedInvalidCredentials(p) ==
  /\ call[p].op = "IsInAdminGroup"
  /\ \/ pc[p] = "IsInAdminGroup.except"
     \/ pc[p] = "done" /\ EndsWith(p, <<"users.get", "credentials.delete">>)

\* C13: when two concurrent IsInAdminGroup callers both get the refresh-token
\* error from their get-user calls, then under every interleaving both fail
\* with SetupNeeded, the delete of credentials already deleted does not fail,
\* the stored credentials end absent and the cache is untouched.
C13_BothInvalid ==
  (\A p \in Procs : ObservedInvalidCredentials(p)) =>
    /\ memcache = <<>>
    /\ \A p \in Procs :
         /\ \A e \in CacheEvents : ~Has(p, e)
         /\ pc[p] = "IsInAdminGroup.except" => ENABLED IsInAdminGroupExcept(p)
         /\ pc[p] = "done" => (result[p] = Raises("SetupNeeded") /\ credentials_store = "None")

C13_DeleteStep ==
  \A p \in Procs :
    (pc[p] = "IsInAdminGroup.except" /\ pc'[p] # pc[p]) =>
      /\ credentials_store' = "None"
      /\ pc'[p] = "done" /\ result'[p] = Raises("SetupNeeded")
      /\ memcache' = memcache
      /\ \A q \in Procs \ {p} : pc'[q] = pc[q] /\ result'[q] = result[q]

C13_RedundantInvalidation == []C13_BothInvalid /\ [][C13_DeleteStep]_vars

C13_Witness ==
  /\ \A p \in Procs :
       /\ pc[p] = "done" /\ ObservedInvalidCredentials(p)
       /\ trace[p] = <<"credentials.get", "build", "users.get", "credentials.delete">>
       /\ local[p].credentials = StoredCredentials
       /\ result[p] = Raises("SetupNeeded")
  /\ ~service_account
  /\ credentials_store = "None"

\* the emails of the listing p received
ListedEmails(p) == {local[p].admin_group_info[1].members[i].email :
                      i \in DOMAIN local[p].admin_group_info[1].members}

\* the stored entry is, whole and in order, the listing p received
EntryIsListingOf(cache, p) ==
  /\ AdminCacheKey \in DOMAIN cache
  /\ local[p].admin_group_info # <<>>
  /\ Len(cache[AdminCacheKey].value) = Len(local[p].admin_group_info[1].members)
  /\ \A i \in DOMAIN cache[AdminCacheKey].value :
       cache[AdminCacheKey].value[i] = local[p].admin_group_info[1].members[i].email

\* C15: two concurrent IsInAdminGroup callers that both miss the cache each
\* list the members and each write the cache; each caller's result is the
\* membership of its user in the listing it received itself; every write
\* stores the writer's whole listing, so the entry is the complete list of
\* one of the two listings, the last written, never a mixture.
C15_BothMissed ==
  (\A p \in Procs : MissInvocation(p) /\ pc[p] = "done" /\ result[p].kind = "return") =>
    /\ \A p \in Procs :
         /\ Count(p, "members.list") = 1 /\ Count(p, "memcache.set") = 1
         /\ result[p].value = (call[p].user_email \in ListedEmails(p))
    /\ AdminCacheKey \in DOMAIN memcache => \E p \in Procs : EntryIsListingOf(memcache, p)

C15_WriteStep ==
  /\ \A p \in Procs :
       (pc[p] = "memcache.set" /\ pc'[p] # pc[p]) =>
         /\ EntryIsListingOf(memcache', p)
         /\ memcache'[AdminCacheKey].age = 0
         /\ result'[p] = Returns(call[p].user_email \in ListedEmails(p))
         /\ \A q \in Procs \ {p} : local'[q] = local[q] /\ result'[q] = result[q]
  /\ (AdminCacheKey \in DOMAIN memcache /\ AdminCacheKey \in DOMAIN memcache'
        /\ memcache'[AdminCacheKey].value # memcache[AdminCacheKey].value) =>
       \E p \in Procs : pc[p] = "memcache.set" /\ pc'[p] = "done"

C15_ConcurrentMisses == []C15_BothMissed /\ [][C15_WriteStep]_vars

C15_Witness ==
  /\ \A p \in Procs :
       /\ MissInvocation(p) /\ pc[p] = "done" /\ result[p].kind = "return"
       /\ EndsWith(p, <<"members.list", "memcache.set">>)
       /\ call[p].user_email = "a@x.com"
  /\ result["p1"].value = TRUE /\ result["p2"].value = FALSE
  /\ EntryPresent
  /\ EntryIsListingOf(memcache, "p1") /\ ~EntryIsListingOf(memcache, "p2")

\* a caller that passed no credentials is at the credential lookup and takes it
LookupStep(p) ==
  /\ pc[p] = "_GetAuthorizedHttp" /\ pc'[p] # pc[p]
  /\ ExplicitArgument(p) = "None"

\* C14: from an invalidation (the handler of BuildService or of
\* IsInAdminGroup has deleted the stored credentials) until the setup flow
\* stores credentials, nothing is stored; with service-account mode off,
\* every GetUserInfo, UpdateUserInfo and IsInAdminGroup invocation that
\* looks credentials up meanwhile ends at that lookup with SetupNeeded: the
\* one datastore read is all it does, no remote call, no cache access.  Once
\* the setup flow has stored credentials, the lookup yields them and the
\* invocation goes on to build the service and call the API.
C14_NothingStoredOnceInvalidated ==
  /\ lifecycle = "invalidated" => credentials_store = "None"
  /\ lifecycle = "recreated" => credentials_store = StoredCredentials

C14_LifecycleStep ==
  /\ \A p \in Procs :
       (pc[p] \in {"BuildService.except", "IsInAdminGroup.except"} /\ pc'[p] # pc[p]) =>
         lifecycle' = "invalidated" /\ credentials_store' = "None"
  /\ (lifecycle = "invalidated" /\ lifecycle' # lifecycle) =>
       /\ lifecycle' = "recreated" /\ credentials_store' = StoredCredentials
       /\ pc' = pc /\ trace' = trace /\ result' = result
  /\ \A p \in Procs :
       (LookupStep(p) /\ lifecycle = "invalidated" /\ ~service_account) =>
         /\ pc'[p] = "done" /\ result'[p] = Raises("SetupNeeded")
         /\ trace'[p] = <<"credentials.get">>
         /\ memcache' = memcache /\ directory' = directory
         /\ credentials_store' = credentials_store /\ lifecycle' = lifecycle
  /\ \A p \in Procs :
       (LookupStep(p) /\ lifecycle = "recreated") =>
         /\ pc'[p] = "build" /\ local'[p].credentials = StoredCredentials
         /\ NewEvents(p) = <<"credentials.get">>
  /\ \A p \in Procs :
       (pc[p] = "build" /\ pc'[p] \notin {"build", "done", "BuildService.except"}) =>
         /\ pc'[p] \in RemoteEvents
         /\ pc'[p] = AfterBuild(local[p].site)

C14_SetupNeededUntilSetup == []C14_NothingStoredOnceInvalidated /\ [][C14_LifecycleStep]_vars

\* after an invalidation, with nothing stored again, a new invocation has
\* been refused at the lookup
C14_Witness ==
  /\ lifecycle = "invalidated" /\ ~service_account
  /\ pc["p1"] = "done" /\ call["p1"].op \in {"GetUserInfo", "UpdateUserInfo", "IsInAdminGroup"}
  /\ result["p1"] = Raises("SetupNeeded")
  /\ trace["p1"] = <<"credentials.get">>

\* after the setup flow has stored credentials again, an invocation has
\* called the remote API with them
C14_ReachesApiAgain ==
  /\ lifecycle = "recreated" /\ ~service_account
  /\ pc["p1"] = "done" /\ call["p1"].op \in {"GetUserInfo", "UpdateUserInfo", "IsInAdminGroup"}
  /\ local["p1"].credentials = StoredCredentials
  /\ Count("p1", "credentials.get") >= 1
  /\ \E e \in RemoteEvents : Has("p1", e)
  /\ result["p1"].kind = "return"

====
